---- MODULE Spec2Model ----
(***************************************************************************)
(* State-machine model of the FIT3155 implementations:                     *)
(*   - Ukkonen suffix tree construction (ukkonen_algorithm.py)             *)
(*   - Boyer-Moore matcher (boyer_moore_matcher.py)                        *)
(*   - Huffman encoder / decoder (huffman_encoder.py, huffman_decoder.py)  *)
(*   - Burrows-Wheeler transform and its inverse (bwt.py, invert_bwt.py)   *)
(* Symbols are modelled by their character codes, strings by sequences of  *)
(* codes; Python's 0-based positions are kept, so text[i] is TextAt(t, i). *)
(***************************************************************************)
EXTENDS Integers, Sequences, FiniteSets, TLC

VARIABLES
    \* ---- SuffixTree object (ukkonen_algorithm.py) ----
    S,                      \* the sequence handed to SuffixTree(S)
    text,                   \* self.text
    size,                   \* self.size
    nodes,                  \* heap of SuffixTreeNode objects, by identity
    active_node,            \* self.active_node
    active_edge,            \* self.active_edge
    active_length,          \* self.active_length
    remaining_suffix_count, \* self.remaining_suffix_count
    leaf_end,               \* self.leaf_end[0]
    last_new_node,          \* self.last_new_node
    pos,                    \* argument of the running _extend_suffix_tree
    phases_done,            \* loop variable of _build_suffix_tree
    caller,                 \* who called the running _extend_suffix_tree
    pc,                     \* control position
    err,                    \* exception raised / stray read observed
    iters,                  \* iterations of the while loop in this phase
    pattern,                \* argument of find_all
    found,                  \* result of find_all
    \* ---- boyer_moore(text, pattern) (boyer_moore_matcher.py) ----
    bm_text, bm_pattern,    \* arguments
    bm_bad_char,            \* bad_char
    bm_gs, bm_mp,           \* gs, mp
    bm_s,                   \* s
    bm_positions,           \* positions
    bm_pc,
    \* ---- Huffman coding (huffman_encoder.py, huffman_decoder.py) ----
    h_text,                 \* the text to encode
    h_pad,                  \* number of zero bits after the payload
    h_bits,                 \* bitstr handed to decode_payload
    h_root,                 \* root, with its node objects in h_nodes
    h_nodes,
    h_total,                \* total_chars
    h_pos,                  \* pos
    h_node,                 \* node
    h_decoded,              \* decoded_chars
    h_out,                  \* the string returned
    h_err,                  \* exception raised
    h_pc,
    \* ---- construct_bwt / invert_bwt (bwt.py, invert_bwt.py) ----
    bwt_text,               \* argument of construct_bwt
    bwt_out,                \* its result, the argument of invert_bwt
    inv_ranks,              \* ranks
    inv_first_occ,          \* first_occ
    inv_row,                \* row
    inv_result,             \* result
    inv_out,                \* the string returned
    bwt_pc,
    \* ---- elias_gamma_decode(bitstr, pos) (huffman_decoder.py) ----
    eg_bitstr,              \* bitstr
    eg_start,               \* pos as passed in
    eg_pos,                 \* pos
    eg_zeros,               \* zeros
    eg_value,               \* value
    eg_err,                 \* exception raised
    eg_pc

stVars == <<S, text, size, nodes, active_node, active_edge, active_length,
            remaining_suffix_count, leaf_end, last_new_node, pos,
            phases_done, caller, pc, err, iters, pattern, found>>

bmVars == <<bm_text, bm_pattern, bm_bad_char, bm_gs, bm_mp, bm_s,
            bm_positions, bm_pc>>

hVars == <<h_text, h_pad, h_bits, h_root, h_nodes, h_total, h_pos, h_node,
           h_decoded, h_out, h_err, h_pc>>

bwtVars == <<bwt_text, bwt_out, inv_ranks, inv_first_occ, inv_row,
             inv_result, inv_out, bwt_pc>>

egVars == <<eg_bitstr, eg_start, eg_pos, eg_zeros, eg_value, eg_err, eg_pc>>

vars == <<stVars, bmVars, hVars, bwtVars, egVars>>

----------------------------------------------------------------------------
\* Bounds of the model
MaxLen == 6
MaxBadLen == 2
MaxPat == 2

\* Symbols
Dollar == 36
InputSymbols == {97, 98}

None == 0
Root == 1
LeafEndCell == 0 - 2

RECURSIVE SeqsUpTo(_, _)
SeqsUpTo(A, n) ==
    IF n = 0 THEN {<<>>}
    ELSE LET P == SeqsUpTo(A, n - 1)
         IN  P \cup {Append(s, a) : s \in {q \in P : Len(q) = n - 1}, a \in A}

Contains(s, c) == \E i \in 1..Len(s) : s[i] = c

\* Python indexing: s[i] for -len(s) <= i < len(s)
TextAt(s, i) == IF i >= 0 THEN s[i + 1] ELSE s[Len(s) + i + 1]
Readable(s, i) == i >= 0 - Len(s) /\ i < Len(s)
InText(s, i) == i >= 0 /\ i < Len(s)

\* Python slice s[a:b] for 0 <= a
Slice(s, a, b) ==
    LET hi == IF b > Len(s) THEN Len(s) ELSE b
    IN  IF a >= hi THEN <<>> ELSE [k \in 1..(hi - a) |-> s[a + k]]

----------------------------------------------------------------------------
\* SuffixTreeNode

SuffixTreeNode(start, end) ==
    [children |-> <<>>, suffix_link |-> None, start |-> start, end |-> end,
     index |-> 0 - 1]

IsList(e) == e = LeafEndCell

edge_length(node, le) ==
    IF IsList(node.end) THEN le - node.start + 1
    ELSE node.end - node.start + 1

\* d[k] = v on a dict
DictSet(d, k, v) == [x \in (DOMAIN d) \cup {k} |-> IF x = k THEN v ELSE d[x]]

----------------------------------------------------------------------------
\* State of the programs that are not running

notTreeVars == <<bmVars, hVars, bwtVars, egVars>>
notBmVars == <<stVars, hVars, bwtVars, egVars>>
notHuffmanVars == <<stVars, bmVars, bwtVars, egVars>>
notBwtVars == <<stVars, bmVars, hVars, egVars>>
notEliasVars == <<stVars, bmVars, hVars, bwtVars>>

IdleTree ==
    /\ S = <<>> /\ text = <<>> /\ size = 0 /\ nodes = <<>>
    /\ active_node = None /\ active_edge = 0 /\ active_length = 0
    /\ remaining_suffix_count = 0 /\ leaf_end = 0 /\ last_new_node = None
    /\ pos = 0 /\ phases_done = 0 /\ caller = "none" /\ pc = "idle"
    /\ err = "none" /\ iters = 0 /\ pattern = <<>> /\ found = <<>>

IdleBoyerMoore ==
    /\ bm_text = <<>> /\ bm_pattern = <<>> /\ bm_bad_char = <<>>
    /\ bm_gs = <<>> /\ bm_mp = <<>> /\ bm_s = 0 /\ bm_positions = <<>>
    /\ bm_pc = "idle"

IdleHuffman ==
    /\ h_text = <<>> /\ h_pad = 0 /\ h_bits = <<>> /\ h_root = None
    /\ h_nodes = <<>> /\ h_total = 0 /\ h_pos = 0 /\ h_node = None
    /\ h_decoded = <<>> /\ h_out = <<>> /\ h_err = "none" /\ h_pc = "idle"

IdleBwt ==
    /\ bwt_text = <<>> /\ bwt_out = <<>> /\ inv_ranks = <<>>
    /\ inv_first_occ = <<>> /\ inv_row = 0 /\ inv_result = <<>>
    /\ inv_out = <<>> /\ bwt_pc = "idle"

IdleElias ==
    /\ eg_bitstr = <<>> /\ eg_start = 0 /\ eg_pos = 0 /\ eg_zeros = 0
    /\ eg_value = 0 /\ eg_err = "none" /\ eg_pc = "idle"

----------------------------------------------------------------------------
\* SuffixTree.__init__ up to the call of _build_suffix_tree

InitTree ==
    /\ S \in SeqsUpTo(InputSymbols, MaxLen)
            \cup SeqsUpTo(InputSymbols \cup {Dollar}, MaxBadLen)
    /\ text = S
    /\ size = Len(S)
    /\ nodes = <<[SuffixTreeNode(0 - 1, 0 - 1) EXCEPT !.suffix_link = Root]>>
    /\ active_node = Root
    /\ active_edge = 0 - 1
    /\ active_length = 0
    /\ remaining_suffix_count = 0
    /\ leaf_end = 0 - 1
    /\ last_new_node = None
    /\ pos = 0 - 1
    /\ phases_done = 0
    /\ caller = "none"
    /\ pc = "build"
    /\ err = "none"
    /\ iters = 0
    /\ pattern = <<>>
    /\ found = <<>>

\* EnterPhase without line 57: the leaf end is not advanced
EnterPhase_LeafEndKept(p, rsc) ==
    /\ leaf_end' = leaf_end
    /\ remaining_suffix_count' = rsc + 1
    /\ last_new_node' = None
    /\ pos' = p
    /\ iters' = 0
    /\ pc' = "loop"

\* EnterPhase without the increment of line 58
EnterPhase_NoIncrement(p, rsc) ==
    /\ leaf_end' = p
    /\ remaining_suffix_count' = rsc
    /\ last_new_node' = None
    /\ pos' = p
    /\ iters' = 0
    /\ pc' = "loop"

\* entry of _extend_suffix_tree(p): lines 57-59, on top of a given count
EnterPhase(p, rsc) ==
    /\ leaf_end' = p
    /\ remaining_suffix_count' = rsc + 1
    /\ last_new_node' = None
    /\ pos' = p
    /\ iters' = 0
    /\ pc' = "loop"

\* _build_suffix_tree: next turn of "for pos in range(self.size)"
BuildPhase ==
    /\ pc = "build"
    /\ phases_done < size
    /\ EnterPhase(phases_done, remaining_suffix_count)
    /\ caller' = "build"
    /\ UNCHANGED notTreeVars
    /\ UNCHANGED <<S, text, size, nodes, active_node, active_edge,
                   active_length, phases_done, err, pattern, found>>

\* _build_suffix_tree: range exhausted, the constructor returns
BuildDone ==
    /\ pc = "build"
    /\ phases_done = size
    /\ pc' = "implicit"
    /\ UNCHANGED notTreeVars
    /\ UNCHANGED <<S, text, size, nodes, active_node, active_edge,
                   active_length, remaining_suffix_count, leaf_end,
                   last_new_node, pos, phases_done, caller, err, iters,
                   pattern, found>>

\* return from _extend_suffix_tree to its caller
Return ==
    IF caller = "build"
    THEN pc' = "build" /\ phases_done' = phases_done + 1
    ELSE pc' = "explicit" /\ phases_done' = phases_done

\* while-condition false: the loop and the phase end
LoopExit ==
    /\ pc = "loop"
    /\ remaining_suffix_count = 0
    /\ Return
    /\ UNCHANGED notTreeVars
    /\ UNCHANGED <<S, text, size, nodes, active_node, active_edge,
                   active_length, remaining_suffix_count, leaf_end,
                   last_new_node, pos, caller, err, iters, pattern, found>>

\* lines 62-63: value of active_edge used by this iteration
EdgeNow == IF active_length = 0 THEN pos ELSE active_edge

\* AfterExtension with line 107 one position short
AfterExtension_EdgeOffByOne(nt, an, ae, al) ==
    LET rsc == remaining_suffix_count - 1
    IN  /\ remaining_suffix_count' = rsc
        /\ IF an = Root /\ al > 0
           THEN /\ active_length' = al - 1
                /\ active_edge' = pos - rsc
                /\ active_node' = an
           ELSE IF an # Root
           THEN /\ active_node' = (IF nt[an].suffix_link # None
                                   THEN nt[an].suffix_link ELSE Root)
                /\ active_edge' = ae
                /\ active_length' = al
           ELSE /\ active_node' = an
                /\ active_edge' = ae
                /\ active_length' = al

\* lines 103-109 applied to the active point (node, edge, length) left by
\* the extension, with node table nt
AfterExtension(nt, an, ae, al) ==
    LET rsc == remaining_suffix_count - 1
    IN  /\ remaining_suffix_count' = rsc
        /\ IF an = Root /\ al > 0
           THEN /\ active_length' = al - 1
                /\ active_edge' = pos - rsc + 1
                /\ active_node' = an
           ELSE IF an # Root
           THEN /\ active_node' = (IF nt[an].suffix_link # None
                                   THEN nt[an].suffix_link ELSE Root)
                /\ active_edge' = ae
                /\ active_length' = al
           ELSE /\ active_node' = an
                /\ active_edge' = ae
                /\ active_length' = al

\* an IndexError leaves the call
Raise(kind, nt) ==
    /\ err' = kind
    /\ pc' = "raised"
    /\ nodes' = nt
    /\ UNCHANGED <<active_node, active_length, remaining_suffix_count,
                   last_new_node, phases_done>>

\* a read of text[i]: stray when i is negative (Python wraps around)
Stray(i) == IF InText(text, i) THEN err ELSE "stray_read"

\* Rule 2, new leaf: lines 66-72 and 103-109
RuleTwoNewLeaf ==
    /\ pc = "loop"
    /\ remaining_suffix_count > 0
    /\ iters' = iters + 1
    /\ IF ~Readable(text, EdgeNow)
       THEN Raise("IndexError", nodes) /\ active_edge' = EdgeNow
       ELSE LET current_char == TextAt(text, EdgeNow)
                leaf == Len(nodes) + 1
                n1 == Append(nodes, SuffixTreeNode(pos, LeafEndCell))
                n2 == [n1 EXCEPT ![active_node].children =
                                    DictSet(@, current_char, leaf)]
                n3 == IF last_new_node # None
                      THEN [n2 EXCEPT ![last_new_node].suffix_link = active_node]
                      ELSE n2
            IN  /\ current_char \notin DOMAIN nodes[active_node].children
                /\ nodes' = n3
                /\ last_new_node' = None
                /\ AfterExtension(n3, active_node, EdgeNow, active_length)
                /\ err' = Stray(EdgeNow)
                /\ pc' = "loop"
                /\ UNCHANGED phases_done
    /\ UNCHANGED notTreeVars
    /\ UNCHANGED <<S, text, size, leaf_end, pos, caller, pattern, found>>

\* the child looked up at line 74 (defined when the key is present)
NextNode == nodes[active_node].children[TextAt(text, EdgeNow)]

ChildPresent ==
    /\ Readable(text, EdgeNow)
    /\ TextAt(text, EdgeNow) \in DOMAIN nodes[active_node].children

\* SkipCount with line 79 left out: the skipped edge is not taken off
\* active_length
SkipCount_LengthKept ==
    /\ pc = "loop"
    /\ remaining_suffix_count > 0
    /\ ChildPresent
    /\ LET el == edge_length(nodes[NextNode], leaf_end)
       IN  /\ active_length >= el
           /\ active_edge' = EdgeNow + el
           /\ active_length' = active_length
           /\ active_node' = NextNode
    /\ iters' = iters + 1
    /\ err' = Stray(EdgeNow)
    /\ UNCHANGED notTreeVars
    /\ UNCHANGED <<S, text, size, nodes, remaining_suffix_count, leaf_end,
                   last_new_node, pos, phases_done, caller, pc, pattern,
                   found>>

\* Skip/count: lines 74-81, "continue" goes back to the while-condition
SkipCount ==
    /\ pc = "loop"
    /\ remaining_suffix_count > 0
    /\ ChildPresent
    /\ LET el == edge_length(nodes[NextNode], leaf_end)
       IN  /\ active_length >= el
           /\ active_edge' = EdgeNow + el
           /\ active_length' = active_length - el
           /\ active_node' = NextNode
    /\ iters' = iters + 1
    /\ err' = Stray(EdgeNow)
    /\ UNCHANGED notTreeVars
    /\ UNCHANGED <<S, text, size, nodes, remaining_suffix_count, leaf_end,
                   last_new_node, pos, phases_done, caller, pc, pattern,
                   found>>

\* position read at line 84
EdgePos == nodes[NextNode].start + active_length

\* Rule 3: lines 84-89, "break" ends the phase
RuleThreeStop ==
    /\ pc = "loop"
    /\ remaining_suffix_count > 0
    /\ ChildPresent
    /\ active_length < edge_length(nodes[NextNode], leaf_end)
    /\ iters' = iters + 1
    /\ IF ~Readable(text, EdgePos)
       THEN Raise("IndexError", nodes) /\ active_edge' = EdgeNow
       ELSE /\ TextAt(text, EdgePos) = TextAt(text, pos)
            /\ IF last_new_node # None /\ active_node # Root
               THEN /\ nodes' = [nodes EXCEPT
                                   ![last_new_node].suffix_link = active_node]
                    /\ last_new_node' = None
               ELSE UNCHANGED <<nodes, last_new_node>>
            /\ active_length' = active_length + 1
            /\ active_edge' = EdgeNow
            /\ err' = (IF InText(text, EdgePos) THEN Stray(EdgeNow)
                       ELSE "stray_read")
            /\ Return
            /\ UNCHANGED <<active_node, remaining_suffix_count>>
    /\ UNCHANGED notTreeVars
    /\ UNCHANGED <<S, text, size, leaf_end, pos, caller, pattern, found>>

\* Reattach with line 97 left out
Reattach_Dropped(nt, split_node, next_node, c) == nt

\* Reattach done before line 96: keyed by the first symbol of the old label
Reattach_KeyedByOldStart(nt, split_node, next_node, c) ==
    [nt EXCEPT ![split_node].children =
        DictSet(@, TextAt(text, nt[split_node].start), next_node)]

\* line 97: the old child goes below the split node, keyed by the first
\* symbol of what is left of its label
Reattach(nt, split_node, next_node, c) ==
    [nt EXCEPT ![split_node].children = DictSet(@, c, next_node)]

\* Rule 2, split: lines 91-101 and 103-109
RuleTwoSplit ==
    /\ pc = "loop"
    /\ remaining_suffix_count > 0
    /\ ChildPresent
    /\ active_length < edge_length(nodes[NextNode], leaf_end)
    /\ Readable(text, EdgePos)
    /\ TextAt(text, EdgePos) # TextAt(text, pos)
    /\ iters' = iters + 1
    /\ LET current_char == TextAt(text, EdgeNow)
           next_node == NextNode
           split_end == nodes[next_node].start + active_length - 1
           split_node == Len(nodes) + 1
           leaf == Len(nodes) + 2
           new_start == nodes[next_node].start + active_length
           n1 == nodes \o <<SuffixTreeNode(nodes[next_node].start, split_end),
                            SuffixTreeNode(pos, LeafEndCell)>>
           n2 == [n1 EXCEPT ![active_node].children =
                               DictSet(@, current_char, split_node)]
           n3 == [n2 EXCEPT ![split_node].children =
                               DictSet(@, TextAt(text, pos), leaf)]
           n4 == [n3 EXCEPT ![next_node].start = new_start]
       IN  IF ~Readable(text, new_start)
           THEN Raise("IndexError", n4) /\ active_edge' = EdgeNow
           ELSE LET n5 == Reattach(n4, split_node, next_node,
                                    TextAt(text, new_start))
                    n6 == IF last_new_node # None
                          THEN [n5 EXCEPT
                                  ![last_new_node].suffix_link = split_node]
                          ELSE n5
                IN  /\ nodes' = n6
                    /\ last_new_node' = split_node
                    /\ AfterExtension(n6, active_node, EdgeNow, active_length)
                    /\ err' = (IF InText(text, EdgePos) /\ InText(text, new_start)
                               THEN Stray(EdgeNow) ELSE "stray_read")
                    /\ pc' = "loop"
                    /\ UNCHANGED phases_done
    /\ UNCHANGED notTreeVars
    /\ UNCHANGED <<S, text, size, leaf_end, pos, caller, pattern, found>>

\* make_explicit: lines 116-121, then the call at line 122 enters the phase
\* (lines 57-59) on top of the count already incremented at line 120
MakeExplicit ==
    /\ pc = "implicit"
    /\ text' = Append(text, Dollar)
    /\ size' = size + 1
    /\ EnterPhase(size, remaining_suffix_count + 1)
    /\ caller' = "make_explicit"
    /\ UNCHANGED notTreeVars
    /\ UNCHANGED <<S, nodes, active_node, active_edge, active_length,
                   phases_done, err, pattern, found>>

----------------------------------------------------------------------------
\* set_suffix_index_by_dfs(node, label_length): the leaves reached from node,
\* each with the label length accumulated on its path.  Every node has one
\* parent, so the order in which the children are visited does not matter.
RECURSIVE DfsLeaves(_, _, _, _)
DfsLeaves(nt, le, node, label_length) ==
    IF DOMAIN nt[node].children = {}
    THEN {<<node, label_length>>}
    ELSE UNION {DfsLeaves(nt, le, nt[node].children[c],
                          label_length
                            + edge_length(nt[nt[node].children[c]], le))
                : c \in DOMAIN nt[node].children}

\* IndexedNodes counting from the last position instead of the length
IndexedNodes_FromLastPosition(nt, le, sz) ==
    LET visited == DfsLeaves(nt, le, Root, 0)
    IN  [i \in DOMAIN nt |->
            IF \E v \in visited : v[1] = i
            THEN [nt[i] EXCEPT !.index =
                     (sz - 1) - (CHOOSE v \in visited : v[1] = i)[2]]
            ELSE nt[i]]

IndexedNodes(nt, le, sz) ==
    LET visited == DfsLeaves(nt, le, Root, 0)
    IN  [i \in DOMAIN nt |->
            IF \E v \in visited : v[1] = i
            THEN [nt[i] EXCEPT !.index =
                     sz - (CHOOSE v \in visited : v[1] = i)[2]]
            ELSE nt[i]]

\* set_suffix_index_by_dfs(self.root, 0) on the explicit tree
SetSuffixIndexByDfs ==
    /\ pc = "explicit"
    /\ nodes' = IndexedNodes(nodes, leaf_end, size)
    /\ pc' = "indexed"
    /\ UNCHANGED notTreeVars
    /\ UNCHANGED <<S, text, size, active_node, active_edge, active_length,
                   remaining_suffix_count, leaf_end, last_new_node, pos,
                   phases_done, caller, err, iters, pattern, found>>

----------------------------------------------------------------------------
\* find_all(tree, p): walk p from the root against the edge labels, then
\* list the suffix indices of the leaves below the point reached.

\* last position of the edge into node
EdgeEnd(nt, le, node) == IF IsList(nt[node].end) THEN le ELSE nt[node].end

\* node whose subtree holds the matches of p after k symbols were matched on
\* the path to node; None when p leaves the tree
RECURSIVE Walk(_, _, _, _, _, _)
Walk(nt, le, t, p, node, k) ==
    IF k = Len(p) THEN node
    ELSE IF p[k + 1] \notin DOMAIN nt[node].children THEN None
    ELSE LET child == nt[node].children[p[k + 1]]
             el == edge_length(nt[child], le)
             m == IF Len(p) - k < el THEN Len(p) - k ELSE el
         IN  IF \A j \in 0..(m - 1) :
                    /\ InText(t, nt[child].start + j)
                    /\ t[nt[child].start + j + 1] = p[k + j + 1]
             THEN (IF m = Len(p) - k THEN child
                   ELSE Walk(nt, le, t, p, child, k + el))
             ELSE None

RECURSIVE Collect(_, _)
RECURSIVE CollectFrom(_, _, _)
CollectFrom(nt, node, keys) ==
    IF keys = {} THEN <<>>
    ELSE LET c == CHOOSE x \in keys : \A y \in keys : x <= y
         IN  Collect(nt, nt[node].children[c])
                 \o CollectFrom(nt, node, keys \ {c})

Collect(nt, node) ==
    IF DOMAIN nt[node].children = {} THEN <<nt[node].index>>
    ELSE CollectFrom(nt, node, DOMAIN nt[node].children)

find_all(nt, le, t, p) ==
    LET reached == Walk(nt, le, t, p, Root, 0)
    IN  IF reached = None THEN <<>> ELSE Collect(nt, reached)

FindAll ==
    /\ pc = "indexed"
    /\ \E p \in SeqsUpTo(InputSymbols, MaxPat) \ {<<>>} :
          /\ pattern' = p
          /\ found' = find_all(nodes, leaf_end, text, p)
    /\ pc' = "queried"
    /\ UNCHANGED notTreeVars
    /\ UNCHANGED <<S, text, size, nodes, active_node, active_edge,
                   active_length, remaining_suffix_count, leaf_end,
                   last_new_node, pos, phases_done, caller, err, iters>>

----------------------------------------------------------------------------
Init == InitTree /\ IdleBoyerMoore /\ IdleHuffman /\ IdleBwt /\ IdleElias

Next ==
    \/ BuildPhase
    \/ BuildDone
    \/ LoopExit
    \/ RuleTwoNewLeaf
    \/ SkipCount
    \/ RuleThreeStop
    \/ RuleTwoSplit
    \/ MakeExplicit
    \/ SetSuffixIndexByDfs
    \/ FindAll

Spec == Init /\ [][Next]_vars

----------------------------------------------------------------------------
\* Reading a tree

Finalized == pc \in {"explicit", "indexed", "queried"}
WellFormedInput == ~Contains(S, Dollar)

HasChildren(nt, v) == DOMAIN nt[v].children # {}

RECURSIVE Below(_, _)
Below(nt, v) ==
    {v} \cup UNION {Below(nt, nt[v].children[c]) : c \in DOMAIN nt[v].children}

ReachableLeaves(nt) == {v \in Below(nt, Root) : ~HasChildren(nt, v)}

Parent(nt, v) ==
    CHOOSE u \in DOMAIN nt :
        \E c \in DOMAIN nt[u].children : nt[u].children[c] = v

EdgeLabel(nt, le, t, v) == Slice(t, nt[v].start, EdgeEnd(nt, le, v) + 1)

RECURSIVE PathLabel(_, _, _, _)
PathLabel(nt, le, t, v) ==
    IF v = Root THEN <<>>
    ELSE PathLabel(nt, le, t, Parent(nt, v)) \o EdgeLabel(nt, le, t, v)

RECURSIVE PathLen(_, _, _)
PathLen(nt, le, v) ==
    IF v = Root THEN 0
    ELSE PathLen(nt, le, Parent(nt, v)) + (EdgeEnd(nt, le, v) - nt[v].start + 1)

Suffixes(t) == {Slice(t, i, Len(t)) : i \in 0..(Len(t) - 1)}

Occurrences(t, p) ==
    {i \in 0..(Len(t) - Len(p)) : Slice(t, i, i + Len(p)) = p}

----------------------------------------------------------------------------
\* C1: on the explicit tree of a sequence without '$', the root-to-leaf
\* labels are pairwise distinct and are exactly the suffixes of S + '$'.
C1_LeafPathsAreTheSuffixes ==
    (Finalized /\ WellFormedInput) =>
        LET L == ReachableLeaves(nodes)
        IN  /\ {PathLabel(nodes, leaf_end, text, v) : v \in L}
                  = Suffixes(Append(S, Dollar))
            /\ \A u, v \in L :
                  PathLabel(nodes, leaf_end, text, u)
                     = PathLabel(nodes, leaf_end, text, v) => u = v

\* C2: find_all on the indexed tree of S returns, for a non-empty substring
\* p of S, exactly the start positions of p in S, each once.
C2_FindAllReturnsExactlyTheOccurrences ==
    (pc = "queried" /\ WellFormedInput /\ Occurrences(S, pattern) # {}) =>
        /\ {found[i] : i \in 1..Len(found)} = Occurrences(S, pattern)
        /\ \A i, j \in 1..Len(found) : found[i] = found[j] => i = j

\* C3: the explicit tree of a sequence S without '$' has len(S) + 1 leaves.
C3_LeafCount ==
    (Finalized /\ WellFormedInput) =>
        Cardinality(ReachableLeaves(nodes)) = Len(S) + 1

C3_Witness ==
    /\ pc = "explicit"
    /\ WellFormedInput
    /\ Len(S) >= 3
    /\ \E v \in DOMAIN nodes : v # Root /\ HasChildren(nodes, v)

\* C4: in the explicit tree of a sequence without '$', every node that has
\* children and is not the root has at least two children.
C4_InternalNodesBranch ==
    (Finalized /\ WellFormedInput) =>
        \A v \in DOMAIN nodes :
            (v # Root /\ HasChildren(nodes, v)) =>
                Cardinality(DOMAIN nodes[v].children) >= 2

C4_Witness ==
    /\ pc = "explicit"
    /\ WellFormedInput
    /\ Cardinality({v \in DOMAIN nodes :
                       v # Root /\ HasChildren(nodes, v)}) >= 2

\* C5: after set_suffix_index_by_dfs(root, 0) each leaf's index is
\* (len(S) + 1) minus the length of its root path, the leaf indices are
\* pairwise distinct and are exactly 0..len(S), and every node with children
\* keeps index -1.
C5_SuffixIndices ==
    (pc = "indexed" /\ WellFormedInput) =>
        LET L == ReachableLeaves(nodes)
        IN  /\ \A v \in L :
                  nodes[v].index = (Len(S) + 1) - PathLen(nodes, leaf_end, v)
            /\ \A u, v \in L : nodes[u].index = nodes[v].index => u = v
            /\ {nodes[v].index : v \in L} = 0..Len(S)
            /\ \A v \in DOMAIN nodes :
                  HasChildren(nodes, v) => nodes[v].index = 0 - 1

C5_Witness ==
    /\ pc = "indexed"
    /\ WellFormedInput
    /\ Len(S) >= 3
    /\ \E v \in DOMAIN nodes :
          /\ v # Root /\ HasChildren(nodes, v)
          /\ \E c \in DOMAIN nodes[v].children :
                nodes[nodes[v].children[c]].index > 0

\* C6: when the text already holds '$', make_explicit reports
\* InvalidTerminator and leaves text, size, nodes, leaf end, active point and
\* remaining_suffix_count as they were, the tree staying unfinalized.
C6_InvalidTerminatorLeavesTreeUnchanged ==
    [][(pc = "implicit" /\ Contains(text, Dollar)) =>
          /\ UNCHANGED <<text, size, nodes, leaf_end, active_node,
                         active_edge, active_length, remaining_suffix_count>>
          /\ pc' \notin {"loop", "explicit"}]_vars

\* C7: for a sequence without '$' every phase completes normally: the loop
\* of a phase for position pos makes at most 2 * (pos + 1) + 1 iterations,
\* no exception is raised, every text position read lies in
\* 0..len(text)-1, and the active point and the suffix links stay on
\* existing nodes.
C7_ConstructionCompletesNormally ==
    WellFormedInput =>
        /\ err = "none"
        /\ pc # "raised"
        /\ iters <= 2 * (pos + 1) + 1
        /\ active_node \in DOMAIN nodes
        /\ \A v \in DOMAIN nodes : nodes[v].suffix_link \in DOMAIN nodes \cup {None}
        /\ (pc = "loop" /\ remaining_suffix_count > 0) =>
               InText(text, EdgeNow)

C7_Witness ==
    /\ pc = "explicit"
    /\ WellFormedInput
    /\ Len(S) >= 3
    /\ Len(nodes) > Len(S) + 2

----------------------------------------------------------------------------
\* boyer_moore_matcher.py.  Lists are functions on 0..len-1.

MaxBmText == 4
MaxBmPat == 3

Max2(a, b) == IF a >= b THEN a ELSE b
Min2(a, b) == IF a <= b THEN a ELSE b

\* bad_character_table: rightmost position of each symbol of the pattern
bad_character_table(pat) ==
    [c \in {pat[i] : i \in 1..Len(pat)} |->
        (CHOOSE i \in 1..Len(pat) :
            pat[i] = c /\ \A j \in (i + 1)..Len(pat) : pat[j] # c) - 1]

\* line 18: the while loop that grows Z[k]
RECURSIVE ZExtend(_, _, _)
ZExtend(s, k, zk) ==
    IF k + zk < Len(s) /\ s[zk + 1] = s[k + zk + 1]
    THEN ZExtend(s, k, zk + 1)
    ELSE zk

\* lines 15-21: the for loop from k on
RECURSIVE ZLoop(_, _, _, _, _)
ZLoop(s, k, Z, left, right) ==
    IF k >= Len(s) THEN Z
    ELSE LET z0 == IF k <= right
                   THEN Min2(right - k + 1, Z[k - left]) ELSE 0
             zk == ZExtend(s, k, z0)
             Z1 == [Z EXCEPT ![k] = zk]
         IN  IF k + zk - 1 > right
             THEN ZLoop(s, k + 1, Z1, k, k + zk - 1)
             ELSE ZLoop(s, k + 1, Z1, left, right)

z_algorithm(s) == ZLoop(s, 1, [i \in 0..(Len(s) - 1) |-> 0], 0, 0)

Reversed(s) == [i \in 1..Len(s) |-> s[Len(s) - i + 1]]

\* Z.reverse() on a list held as a function on 0..n-1
ListReverse(Z, n) == [i \in 0..(n - 1) |-> Z[n - 1 - i]]

\* lines 35-38: for p in range(1, m), from p on
RECURSIVE GsLoop(_, _, _, _)
GsLoop(Z, m, p, gs) ==
    IF p >= m THEN gs
    ELSE LET j == m - Z[p] + 1
         IN  GsLoop(Z, m, p + 1, IF j <= m THEN [gs EXCEPT ![j] = p] ELSE gs)

\* lines 41-45: for i in range(m), from i on
RECURSIVE MpLoop(_, _, _, _, _)
MpLoop(Z, m, i, longest, mp) ==
    IF i >= m THEN mp
    ELSE LET l == IF Z[i] = i + 1 THEN i + 1 ELSE longest
         IN  MpLoop(Z, m, i + 1, l, [mp EXCEPT ![m - i - 1] = l])

good_suffix_table(pat) ==
    LET m == Len(pat)
        Z == ListReverse(z_algorithm(Reversed(pat)), m)
        zeros == [i \in 0..m |-> 0]
    IN  [gs |-> GsLoop(Z, m, 1, zeros), mp |-> MpLoop(Z, m, 0, 0, zeros)]

InitBoyerMoore ==
    /\ bm_text \in SeqsUpTo(InputSymbols, MaxBmText)
    /\ bm_pattern \in SeqsUpTo(InputSymbols, MaxBmPat)
    /\ bm_bad_char = <<>>
    /\ bm_gs = <<>>
    /\ bm_mp = <<>>
    /\ bm_s = 0
    /\ bm_positions = <<>>
    /\ bm_pc = "start"

\* lines 51-58
BmPreprocess ==
    /\ bm_pc = "start"
    /\ bm_bad_char' = bad_character_table(bm_pattern)
    /\ bm_gs' = good_suffix_table(bm_pattern).gs
    /\ bm_mp' = good_suffix_table(bm_pattern).mp
    /\ bm_s' = 0
    /\ bm_positions' = <<>>
    /\ bm_pc' = "search"
    /\ UNCHANGED <<bm_text, bm_pattern>>
    /\ UNCHANGED notBmVars

\* lines 60-62: where the right-to-left comparison stops at shift s
RECURSIVE BmScan(_, _, _, _)
BmScan(t, pat, s, j) ==
    IF j >= 0 /\ pat[j + 1] = t[s + j + 1] THEN BmScan(t, pat, s, j - 1)
    ELSE j

\* lines 59-66: the pattern matches at s
BmMatch ==
    /\ bm_pc = "search"
    /\ bm_s <= Len(bm_text) - Len(bm_pattern)
    /\ BmScan(bm_text, bm_pattern, bm_s, Len(bm_pattern) - 1) < 0
    /\ bm_positions' = Append(bm_positions, bm_s)
    /\ bm_s' = bm_s + (IF Len(bm_pattern) > 1
                       THEN Len(bm_pattern) - bm_mp[1] ELSE 1)
    /\ UNCHANGED <<bm_text, bm_pattern, bm_bad_char, bm_gs, bm_mp, bm_pc>>
    /\ UNCHANGED notBmVars

\* bad_char.get(c, -1)
DictGet(d, k, default) == IF k \in DOMAIN d THEN d[k] ELSE default

\* lines 68-73: the shift after a mismatch at pattern position j
BmShift(t, pat, bad_char, gs, mp, s, j) ==
    LET m == Len(pat)
        bc_shift == j - DictGet(bad_char, t[s + j + 1], 0 - 1)
        gs_shift == IF gs[j + 1] > 0 THEN m - gs[j + 1] ELSE m - mp[j + 1]
    IN  Max2(Max2(bc_shift, gs_shift), 1)

\* lines 59-62 and 67-73: mismatch at s
BmMismatch ==
    /\ bm_pc = "search"
    /\ bm_s <= Len(bm_text) - Len(bm_pattern)
    /\ LET j == BmScan(bm_text, bm_pattern, bm_s, Len(bm_pattern) - 1)
       IN  /\ j >= 0
           /\ bm_s' = bm_s + BmShift(bm_text, bm_pattern, bm_bad_char,
                                     bm_gs, bm_mp, bm_s, j)
    /\ UNCHANGED <<bm_text, bm_pattern, bm_bad_char, bm_gs, bm_mp,
                   bm_positions, bm_pc>>
    /\ UNCHANGED notBmVars

\* line 59 false, line 75
BmReturn ==
    /\ bm_pc = "search"
    /\ bm_s > Len(bm_text) - Len(bm_pattern)
    /\ bm_pc' = "done"
    /\ UNCHANGED <<bm_text, bm_pattern, bm_bad_char, bm_gs, bm_mp, bm_s,
                   bm_positions>>
    /\ UNCHANGED notBmVars

NextBoyerMoore == BmPreprocess \/ BmMatch \/ BmMismatch \/ BmReturn

InitBm ==
    InitBoyerMoore /\ IdleTree /\ IdleHuffman /\ IdleBwt /\ IdleElias

SpecBoyerMoore == InitBm /\ [][NextBoyerMoore]_vars

\* positions 0..len(t)-len(p) where p occurs in t, in increasing order
RECURSIVE Ascending(_)
Ascending(X) ==
    IF X = {} THEN <<>>
    ELSE LET x == CHOOSE a \in X : \A b \in X : a <= b
         IN  <<x>> \o Ascending(X \ {x})

\* C8: for a non-empty pattern boyer_moore returns, in increasing order,
\* exactly the positions where the pattern occurs in the text.
C8_BoyerMooreFindsEveryOccurrence ==
    (bm_pc = "done" /\ Len(bm_pattern) > 0) =>
        bm_positions = Ascending(Occurrences(bm_text, bm_pattern))

----------------------------------------------------------------------------
\* huffman_encoder.py and huffman_decoder.py.  Bits are 0 and 1; the
\* HuffmanNode objects live in a table, a tree is [nodes, root].

MaxHuffLen == 3
MaxPad == 2
HuffmanSymbols == {97, 98, 99}

\* Counter(text): the distinct symbols in order of first appearance, each
\* with its count
RECURSIVE Counter(_)
Counter(t) ==
    IF t = <<>> THEN <<>>
    ELSE LET c == t[1]
             n == Cardinality({i \in 1..Len(t) : t[i] = c})
         IN  <<<<c, n>>>> \o Counter(SelectSeq(t, LAMBDA x : x # c))

HuffmanNode(freq, char, left, right) ==
    [freq |-> freq, char |-> char, left |-> left, right |-> right]

\* heapq order on the tuples (freq, count, node): by freq, then by count
HeapMin(heap) ==
    CHOOSE a \in heap :
        \A b \in heap : a[1] < b[1] \/ (a[1] = b[1] /\ a[2] <= b[2])

\* lines 39-45 of build_huffman_tree
RECURSIVE MergeLoop(_, _, _)
MergeLoop(nt, heap, count) ==
    IF Cardinality(heap) <= 1 THEN [nodes |-> nt, root |-> HeapMin(heap)[3]]
    ELSE LET a == HeapMin(heap)
             b == HeapMin(heap \ {a})
             new_node == Len(nt) + 1
             f == a[1] + b[1]
         IN  MergeLoop(Append(nt, HuffmanNode(f, None, a[3], b[3])),
                       (heap \ {a, b}) \cup {<<f, count, new_node>>},
                       count + 1)

\* huffman_encoder.build_huffman_tree, freq_dict as the list of its items
build_huffman_tree(freq_dict) ==
    MergeLoop([i \in 1..Len(freq_dict) |->
                  HuffmanNode(freq_dict[i][2], freq_dict[i][1], None, None)],
              {<<freq_dict[i][2], i - 1, i>> : i \in 1..Len(freq_dict)},
              Len(freq_dict))

\* huffman_decoder.build_huffman_tree: the same function, defined again
decoder_build_huffman_tree(freq_dict) ==
    MergeLoop([i \in 1..Len(freq_dict) |->
                  HuffmanNode(freq_dict[i][2], freq_dict[i][1], None, None)],
              {<<freq_dict[i][2], i - 1, i>> : i \in 1..Len(freq_dict)},
              Len(freq_dict))

\* build_huffman_codes(node, prefix): the entries it writes to codebook
RECURSIVE build_huffman_codes(_, _, _)
build_huffman_codes(nt, node, prefix) ==
    IF nt[node].char # None
    THEN (nt[node].char :> (IF prefix = <<>> THEN <<0>> ELSE prefix))
    ELSE build_huffman_codes(nt, nt[node].right, Append(prefix, 1))
            @@ build_huffman_codes(nt, nt[node].left, Append(prefix, 0))

RECURSIVE text_to_bitstring(_, _)
text_to_bitstring(t, codebook) ==
    IF t = <<>> THEN <<>>
    ELSE codebook[t[1]] \o text_to_bitstring(Tail(t), codebook)

Zeros(n) == [i \in 1..n |-> 0]

InitHuffman ==
    /\ h_text \in SeqsUpTo(HuffmanSymbols, MaxHuffLen) \ {<<>>}
    /\ h_pad \in 0..MaxPad
    /\ h_bits = <<>> /\ h_root = None /\ h_nodes = <<>> /\ h_total = 0
    /\ h_pos = 0 /\ h_node = None /\ h_decoded = <<>> /\ h_out = <<>>
    /\ h_err = "none" /\ h_pc = "start"

\* encoder main, lines 87-92, and the zero padding of pack_bits
HuffmanEncode ==
    /\ h_pc = "start"
    /\ LET tree == build_huffman_tree(Counter(h_text))
           codebook == build_huffman_codes(tree.nodes, tree.root, <<>>)
       IN  h_bits' = text_to_bitstring(h_text, codebook) \o Zeros(h_pad)
    /\ h_total' = Len(h_text)
    /\ h_pc' = "encoded"
    /\ UNCHANGED <<h_text, h_pad, h_root, h_nodes, h_pos, h_node, h_decoded,
                   h_out, h_err>>
    /\ UNCHANGED notHuffmanVars

\* decoder main line 109 and decode_payload lines 52-53, with pos = 0
DecodeStart ==
    /\ h_pc = "encoded"
    /\ LET tree == decoder_build_huffman_tree(Counter(h_text))
       IN  /\ h_nodes' = tree.nodes
           /\ h_root' = tree.root
           /\ h_node' = tree.root
    /\ h_pos' = 0
    /\ h_decoded' = <<>>
    /\ h_pc' = "decoding"
    /\ UNCHANGED <<h_text, h_pad, h_bits, h_total, h_out, h_err>>
    /\ UNCHANGED notHuffmanVars

\* decode_payload lines 54-65: one turn of the while loop
DecodeBit ==
    /\ h_pc = "decoding"
    /\ Len(h_decoded) < h_total /\ h_pos < Len(h_bits)
    /\ LET bit == h_bits[h_pos + 1]
           node == IF bit = 0 THEN h_nodes[h_node].left
                   ELSE h_nodes[h_node].right
       IN  /\ h_pos' = h_pos + 1
           /\ IF node = None
              THEN /\ h_node' = node
                   /\ h_pc' = "check"
                   /\ UNCHANGED h_decoded
              ELSE IF h_nodes[node].char # None
              THEN /\ h_decoded' = Append(h_decoded, h_nodes[node].char)
                   /\ h_node' = h_root
                   /\ UNCHANGED h_pc
              ELSE /\ h_node' = node
                   /\ UNCHANGED <<h_decoded, h_pc>>
    /\ UNCHANGED <<h_text, h_pad, h_bits, h_root, h_nodes, h_total, h_out,
                   h_err>>
    /\ UNCHANGED notHuffmanVars

\* line 54 false
DecodeLoopExit ==
    /\ h_pc = "decoding"
    /\ ~(Len(h_decoded) < h_total /\ h_pos < Len(h_bits))
    /\ h_pc' = "check"
    /\ UNCHANGED <<h_text, h_pad, h_bits, h_root, h_nodes, h_total, h_pos,
                   h_node, h_decoded, h_out, h_err>>
    /\ UNCHANGED notHuffmanVars

\* lines 66-68
DecodeRaise ==
    /\ h_pc = "check"
    /\ Len(h_decoded) # h_total
    /\ h_err' = "ValueError"
    /\ h_pc' = "done"
    /\ UNCHANGED <<h_text, h_pad, h_bits, h_root, h_nodes, h_total, h_pos,
                   h_node, h_decoded, h_out>>
    /\ UNCHANGED notHuffmanVars

\* line 69
DecodeReturn ==
    /\ h_pc = "check"
    /\ Len(h_decoded) = h_total
    /\ h_out' = h_decoded
    /\ h_pc' = "done"
    /\ UNCHANGED <<h_text, h_pad, h_bits, h_root, h_nodes, h_total, h_pos,
                   h_node, h_decoded, h_err>>
    /\ UNCHANGED notHuffmanVars

NextHuffman ==
    \/ HuffmanEncode
    \/ DecodeStart
    \/ DecodeBit
    \/ DecodeLoopExit
    \/ DecodeRaise
    \/ DecodeReturn

InitH ==
    InitHuffman /\ IdleTree /\ IdleBoyerMoore /\ IdleBwt /\ IdleElias

SpecHuffman == InitH /\ [][NextHuffman]_vars

\* C9: for every non-empty text, decode_payload on the encoded text followed
\* by any zero padding returns the text.
C9_HuffmanRoundTrip ==
    h_pc = "done" => (h_err = "none" /\ h_out = h_text)

----------------------------------------------------------------------------
\* bwt.py and invert_bwt.py

MaxBwtLen == 4
BwtSymbols == {35, 97, 98}

\* Python's order on strings: by code, a proper prefix first
RECURSIVE LexLess(_, _)
LexLess(a, b) ==
    IF b = <<>> THEN FALSE
    ELSE IF a = <<>> THEN TRUE
    ELSE IF a[1] # b[1] THEN a[1] < b[1]
    ELSE LexLess(Tail(a), Tail(b))

\* list.sort() on a list of strings
RECURSIVE SortStrings(_)
SortStrings(l) ==
    IF l = <<>> THEN <<>>
    ELSE LET i == CHOOSE k \in 1..Len(l) :
                      \A j \in 1..Len(l) : ~LexLess(l[j], l[k])
         IN  <<l[i]>> \o SortStrings(SubSeq(l, 1, i - 1)
                                       \o SubSeq(l, i + 1, Len(l)))

EndsWith(t, c) == Len(t) > 0 /\ t[Len(t)] = c

\* construct_bwt taking the first symbol of each rotation at line 18
construct_bwt_FirstColumn(t0) ==
    LET t == IF EndsWith(t0, Dollar) THEN t0 ELSE Append(t0, Dollar)
        n == Len(t)
        rotations == SortStrings([k \in 1..n |->
                        SubSeq(t, k, n) \o SubSeq(t, 1, k - 1)])
    IN  [k \in 1..n |-> rotations[k][1]]

construct_bwt(t0) ==
    LET t == IF EndsWith(t0, Dollar) THEN t0 ELSE Append(t0, Dollar)
        n == Len(t)
        rotations == SortStrings([k \in 1..n |->
                        SubSeq(t, k, n) \o SubSeq(t, 1, k - 1)])
    IN  [k \in 1..n |-> rotations[k][n]]

\* invert_bwt lines 9-15: ranks, a list held as a function on 0..n-1
Ranks(bwt) ==
    [i \in 0..(Len(bwt) - 1) |->
        Cardinality({j \in 1..i : bwt[j] = bwt[i + 1]})]

\* invert_bwt lines 10-15: count
Count(bwt) ==
    [c \in {bwt[i] : i \in 1..Len(bwt)} |->
        Cardinality({i \in 1..Len(bwt) : bwt[i] = c})]

\* invert_bwt lines 19-23: for ch in sorted(count.keys()), from the keys
\* not yet visited
RECURSIVE FirstOccLoop(_, _, _, _)
FirstOccLoop(count, keys, total, first_occ) ==
    IF keys = {} THEN first_occ
    ELSE LET ch == CHOOSE a \in keys : \A b \in keys : a <= b
         IN  FirstOccLoop(count, keys \ {ch}, total + count[ch],
                          DictSet(first_occ, ch, total))

FirstOcc(bwt) == FirstOccLoop(Count(bwt), DOMAIN Count(bwt), 0, <<>>)

\* bwt.index(c), for a symbol that occurs
IndexOf(bwt, c) ==
    (CHOOSE i \in 1..Len(bwt) :
         bwt[i] = c /\ \A j \in 1..(i - 1) : bwt[j] # c) - 1

InitBwt ==
    /\ bwt_text \in SeqsUpTo(BwtSymbols, MaxBwtLen)
                      \cup SeqsUpTo(BwtSymbols \cup {Dollar}, MaxBadLen)
    /\ bwt_out = <<>> /\ inv_ranks = <<>> /\ inv_first_occ = <<>>
    /\ inv_row = 0 /\ inv_result = <<>> /\ inv_out = <<>>
    /\ bwt_pc = "start"

ConstructBwt ==
    /\ bwt_pc = "start"
    /\ bwt_out' = construct_bwt(bwt_text)
    /\ bwt_pc' = "constructed"
    /\ UNCHANGED <<bwt_text, inv_ranks, inv_first_occ, inv_row, inv_result,
                   inv_out>>
    /\ UNCHANGED notBwtVars

\* invert_bwt lines 5-31
InvertPrepare ==
    /\ bwt_pc = "constructed"
    /\ inv_ranks' = Ranks(bwt_out)
    /\ inv_first_occ' = FirstOcc(bwt_out)
    /\ inv_row' = IndexOf(bwt_out, Dollar)
    /\ inv_result' = <<>>
    /\ bwt_pc' = "inverting"
    /\ UNCHANGED <<bwt_text, bwt_out, inv_out>>
    /\ UNCHANGED notBwtVars

\* invert_bwt lines 32-35: one turn of "for i in range(n)"
InvertStep ==
    /\ bwt_pc = "inverting"
    /\ Len(inv_result) < Len(bwt_out)
    /\ LET ch == bwt_out[inv_row + 1]
       IN  /\ inv_result' = Append(inv_result, ch)
           /\ inv_row' = inv_first_occ[ch] + inv_ranks[inv_row]
    /\ UNCHANGED <<bwt_text, bwt_out, inv_ranks, inv_first_occ, inv_out,
                   bwt_pc>>
    /\ UNCHANGED notBwtVars

\* invert_bwt lines 39-40
InvertReturn ==
    /\ bwt_pc = "inverting"
    /\ Len(inv_result) = Len(bwt_out)
    /\ inv_out' = Reversed(inv_result)
    /\ bwt_pc' = "inverted"
    /\ UNCHANGED <<bwt_text, bwt_out, inv_ranks, inv_first_occ, inv_row,
                   inv_result>>
    /\ UNCHANGED notBwtVars

NextBwt == ConstructBwt \/ InvertPrepare \/ InvertStep \/ InvertReturn

InitB ==
    InitBwt /\ IdleTree /\ IdleBoyerMoore /\ IdleHuffman /\ IdleElias

SpecBwt == InitB /\ [][NextBwt]_vars

\* C10: for every text t without '$', invert_bwt(construct_bwt(t)) is
\* t followed by '$'.
C10_BwtRoundTrip ==
    (bwt_pc = "inverted" /\ ~Contains(bwt_text, Dollar)) =>
        inv_out = Append(bwt_text, Dollar)

C10_Witness ==
    /\ bwt_pc = "inverted"
    /\ ~Contains(bwt_text, Dollar)
    /\ Len(bwt_text) >= 3
    /\ bwt_out # Append(bwt_text, Dollar)
    /\ \E i, j \in 1..Len(bwt_text) : i # j /\ bwt_text[i] = bwt_text[j]
    /\ \E i \in 1..Len(bwt_text) : bwt_text[i] < Dollar

----------------------------------------------------------------------------
\* Phases of the suffix tree construction

\* C11: make_explicit increments remaining_suffix_count exactly once: the
\* loop of the final phase starts with the count left by the last
\* construction phase plus one.
C11_FinalPhaseIncrementsOnce ==
    [][pc = "implicit" =>
          remaining_suffix_count' = remaining_suffix_count + 1]_vars

Prefixes(w) == {SubSeq(w, 1, k) : k \in 0..Len(w)}

Substrings(w) == {Slice(w, i, j) : i \in 0..Len(w), j \in 0..Len(w)}

\* the strings spelled by the paths that start at the root and end at a node
\* or inside an edge
Spelled(nt, le, t) ==
    UNION {Prefixes(PathLabel(nt, le, t, v)) : v \in Below(nt, Root)}

\* between two phases of the constructor, or after its last one
PhasesRun == pc \in {"build", "implicit"}

\* C12: after the first k phases of SuffixTree(S) the strings spelled from
\* the root are exactly the substrings of S[0..k), and every root-to-leaf
\* path spells a suffix of S[0..k).
C12_ImplicitTreeSpellsTheSubstrings ==
    PhasesRun =>
        LET P == SubSeq(S, 1, phases_done)
        IN  /\ Spelled(nodes, leaf_end, text) = Substrings(P)
            /\ \A v \in ReachableLeaves(nodes) \ {Root} :
                  PathLabel(nodes, leaf_end, text, v) \in Suffixes(P)

C12_Witness ==
    /\ pc = "build"
    /\ phases_done >= 4
    /\ phases_done < size
    /\ remaining_suffix_count >= 2
    /\ \E v \in DOMAIN nodes : v # Root /\ HasChildren(nodes, v)

\* no phase is running
PhaseEnded == pc \in {"build", "implicit", "explicit"}

SuffixLinksPointToSuffixes ==
    \A v \in DOMAIN nodes :
        (v # Root /\ HasChildren(nodes, v)) =>
            LET w == PathLabel(nodes, leaf_end, text, v)
                l == nodes[v].suffix_link
            IN  IF l # None
                THEN PathLabel(nodes, leaf_end, text, l) = Tail(w)
                ELSE Len(w) = 1

\* C13: at the end of every phase (finalization included) a set suffix link
\* of an internal node other than the root points to the node whose path
\* label is the node's own without its first symbol, and a node whose link
\* is unset has a path label of length one.
C13_SuffixLinksAtPhaseEnd == PhaseEnded => SuffixLinksPointToSuffixes

\* the nodes that hold v as a child
ParentsOf(nt, v) ==
    {u \in DOMAIN nt : \E c \in DOMAIN nt[u].children : nt[u].children[c] = v}

\* a phase has been entered, so the tree is the one some extension left
Extending == pc \in {"loop", "build", "implicit", "explicit"}

\* C14: after every extension of every phase each entry c -> u of a
\* node's children has text[u.start] = c, and every node other than the
\* root is the child of exactly one node.
C14_ChildrenKeyedByFirstSymbol ==
    Extending =>
        /\ \A v \in DOMAIN nodes : \A c \in DOMAIN nodes[v].children :
              LET u == nodes[v].children[c]
              IN  /\ u \in DOMAIN nodes
                  /\ InText(text, nodes[u].start)
                  /\ text[nodes[u].start + 1] = c
        /\ \A v \in DOMAIN nodes \ {Root} :
              Cardinality(ParentsOf(nodes, v)) = 1
        /\ ParentsOf(nodes, Root) = {}

C14_Witness ==
    /\ pc = "loop"
    /\ caller = "make_explicit"
    /\ last_new_node # None
    /\ Cardinality({v \in DOMAIN nodes :
                       v # Root /\ HasChildren(nodes, v)}) >= 2

IsLeaf(nt, v) == v # Root /\ ~HasChildren(nt, v)

\* leaves are the nodes whose end is the shared cell; at the end of phase
\* pos the cell holds pos, so a leaf's edge has pos - start + 1 symbols
LeavesShareTheLeafEnd ==
    /\ \A v \in DOMAIN nodes \ {Root} :
          IsLeaf(nodes, v) <=> IsList(nodes[v].end)
    /\ (PhaseEnded /\ pos >= 0) =>
          /\ leaf_end = pos
          /\ \A v \in DOMAIN nodes :
                IsLeaf(nodes, v) =>
                    edge_length(nodes[v], leaf_end) = pos - nodes[v].start + 1

\* a step keeps the end of every node with children and keeps leaves leaves
EndsAndLeavesKept ==
    \A v \in DOMAIN nodes \ {Root} :
        /\ v \in DOMAIN nodes'
        /\ HasChildren(nodes, v) =>
              /\ nodes'[v].end = nodes[v].end
              /\ ~IsList(nodes[v].end)
        /\ IsLeaf(nodes, v) => IsLeaf(nodes', v)

\* C15: a non-root node has no children exactly when its end is the shared
\* leaf-end cell, which holds pos after phase pos; a node with children has
\* a fixed integer end that never changes; a leaf stays a leaf.
C15_LeafEndDiscipline ==
    [](Extending => LeavesShareTheLeafEnd) /\ [][EndsAndLeavesKept]_vars

C15_Witness ==
    /\ pc = "explicit"
    /\ Len(S) >= 4
    /\ \E v \in DOMAIN nodes :
          /\ IsLeaf(nodes, v)
          /\ Parent(nodes, v) # Root
          /\ nodes[v].start > 0
          /\ nodes[v].start < pos

----------------------------------------------------------------------------
\* Elias gamma codes: huffman_encoder.elias_gamma_encode and
\* huffman_decoder.elias_gamma_decode

MaxBits == 4

\* bin(n)[2:]
RECURSIVE Bin(_)
Bin(n) == IF n <= 1 THEN <<n>> ELSE Append(Bin(n \div 2), n % 2)

\* elias_gamma_encode(n) for n >= 1 (it raises ValueError below 1)
elias_gamma_encode(n) == Zeros(Len(Bin(n)) - 1) \o Bin(n)

\* int(b, 2) for a non-empty string of binary digits
RECURSIVE ParseBinary(_)
ParseBinary(b) ==
    IF b = <<>> THEN 0
    ELSE 2 * ParseBinary(SubSeq(b, 1, Len(b) - 1)) + b[Len(b)]

InitElias ==
    /\ eg_bitstr \in SeqsUpTo({0, 1}, MaxBits)
    /\ eg_start \in 0..Len(eg_bitstr)
    /\ eg_pos = eg_start
    /\ eg_zeros = 0
    /\ eg_value = 0
    /\ eg_err = "none"
    /\ eg_pc = "zeros"

\* lines 11-13: one turn of the while loop
EgSkipZero ==
    /\ eg_pc = "zeros"
    /\ eg_pos < Len(eg_bitstr) /\ eg_bitstr[eg_pos + 1] = 0
    /\ eg_zeros' = eg_zeros + 1
    /\ eg_pos' = eg_pos + 1
    /\ UNCHANGED <<eg_bitstr, eg_start, eg_value, eg_err, eg_pc>>
    /\ UNCHANGED notEliasVars

ZerosCounted ==
    /\ eg_pc = "zeros"
    /\ ~(eg_pos < Len(eg_bitstr) /\ eg_bitstr[eg_pos + 1] = 0)

\* lines 14-15
EgRaiseIncomplete ==
    /\ ZerosCounted
    /\ eg_pos + eg_zeros > Len(eg_bitstr)
    /\ eg_err' = "ValueError"
    /\ eg_pc' = "done"
    /\ UNCHANGED <<eg_bitstr, eg_start, eg_pos, eg_zeros, eg_value>>
    /\ UNCHANGED notEliasVars

\* lines 16-19; int() raises ValueError on an empty string
EgRead ==
    /\ ZerosCounted
    /\ eg_pos + eg_zeros <= Len(eg_bitstr)
    /\ LET binary_value == Slice(eg_bitstr, eg_pos, eg_pos + eg_zeros + 1)
       IN  IF binary_value = <<>>
           THEN /\ eg_err' = "ValueError"
                /\ UNCHANGED <<eg_value, eg_pos>>
           ELSE /\ eg_value' = ParseBinary(binary_value)
                /\ eg_pos' = eg_pos + eg_zeros + 1
                /\ UNCHANGED eg_err
    /\ eg_pc' = "done"
    /\ UNCHANGED <<eg_bitstr, eg_start, eg_zeros>>
    /\ UNCHANGED notEliasVars

NextElias == EgSkipZero \/ EgRaiseIncomplete \/ EgRead

InitEg ==
    InitElias /\ IdleTree /\ IdleBoyerMoore /\ IdleHuffman /\ IdleBwt

SpecElias == InitEg /\ [][NextElias]_vars

\* b holds a complete code at p: k zeros followed by k + 1 further bits
CompleteCode(b, p) ==
    \E k \in 0..Len(b) :
        /\ p + 2 * k + 1 <= Len(b)
        /\ \A i \in 1..k : b[p + i] = 0
        /\ b[p + k + 1] = 1

\* C16: elias_gamma_decode(b, pos) either raises ValueError or returns
\* (n, pos') with b[pos:pos'] = elias_gamma_encode(n) and pos' <= len(b);
\* it raises whenever b holds no complete code at pos.
C16_EliasGammaDecodeIsExact ==
    eg_pc = "done" =>
        /\ eg_err = "ValueError"
             \/ /\ eg_value >= 1
                /\ eg_pos <= Len(eg_bitstr)
                /\ Slice(eg_bitstr, eg_start, eg_pos)
                      = elias_gamma_encode(eg_value)
        /\ ~CompleteCode(eg_bitstr, eg_start) => eg_err = "ValueError"

====
